---- MODULE Spec2Model ----
(***************************************************************************)
(* A model of the Edgee TypeScript SDK client (src/src/index.ts):          *)
(*   - the SSE decoder  Edgee._handleStreamingResponse  (SpecSSE),         *)
(*   - the agentic loops  Edgee.sendSimple  and  Edgee._streamSimple       *)
(*     (Spec: both loops; SpecAcc: one streaming iteration fed with        *)
(*     arbitrarily fragmented tool-call deltas).                           *)
(*                                                                         *)
(* Text that the decoder handles is a sequence of one-character strings.   *)
(* JavaScript strings that are only concatenated and compared (tool-call   *)
(* arguments, message contents, ids, names) are TLA+ strings.              *)
(***************************************************************************)
EXTENDS Integers, Sequences, FiniteSets, TLC

VARIABLES
    \* ---- Edgee._handleStreamingResponse ----
    body,       \* the characters of the response body (what the server sends)
    pos,        \* how many characters reader.read() has delivered so far
    reader,     \* the response-body reader: "none", "open", "closed", "errored"
    buffer,     \* let buffer: the partial line kept between chunks
    lines,      \* the lines of the current chunk the for-loop has not reached yet
    sse_pc,     \* "fetch", "read", "yield", "ended"
    sse_exit,   \* how the generator ended
    emitted,    \* the StreamChunk values yielded so far
    \* ---- SendResponse ----
    view,       \* a SendResponse's choices, and the getter last read with its value
    \* ---- Edgee.send / Edgee.stream ----
    call,       \* the call made: [op, form, input]
    mode,       \* the method running: "send", "stream", "send_advanced",
                \* "stream_advanced"; "sse" or "views" when only the decoder or
                \* the getters of a response are exercised
    profile,    \* which frames the server sends: "plain", "fragmented", or
                \* "scripted" when model and tools follow the script
    script,     \* what the model answers in each iteration, as calls and as
                \* frames, and how the registered tool behaves
    maxToolIterations,
    iterations,
    messages,
    pc,
    outcome,
    requests,   \* completion requests issued by this call
    totalUsage,
    totalRef,   \* which object totalUsage is: 0 its own, k the usage of response k
    usageLog,   \* the usage reported by each iteration's response, in order
    returned,   \* the SendResponse sendSimple returned
    role,
    content,
    toolCallsAccumulator,  \* Map<number, ToolCall>: entries in insertion order
    chunk,      \* the chunk of the pending "chunk" event
    nframes,    \* frames decoded in the current iteration
    toolCalls,  \* the tool calls of the current iteration
    ti,         \* position of the for-loop over toolCalls
    result,     \* the result of the tool call in progress
    events,     \* the StreamEvents yielded so far
    roles,      \* the role of each frame decoded in the current iteration ("" for none)
    fragments,  \* per delta index: the argument fragments received, joined in arrival order
    invoked     \* validator and handler invocations, in order

sseVars == <<body, pos, reader, buffer, lines, sse_pc, sse_exit, emitted>>

loopVars == <<view, call, mode, profile, script, maxToolIterations, iterations, messages, pc, outcome,
              requests, totalUsage, totalRef, usageLog, returned, role, content,
              toolCallsAccumulator, chunk, nframes, toolCalls, ti, result,
              events, fragments, roles, invoked>>

vars == <<sseVars, loopVars>>

Undefined == "undefined"

\* ------------------------------------------------------------------ bounds

\* Segments a response body is made of.
MaxSegments == 3

\* ------------------------------------------------------------ text helpers

Last(s) == s[Len(s)]

Front(s) == SubSeq(s, 1, Len(s) - 1)

IsPrefix(s, t) == Len(s) <= Len(t) /\ SubSeq(t, 1, Len(s)) = s

RECURSIVE Concat(_)
Concat(ss) == IF ss = <<>> THEN <<>> ELSE Head(ss) \o Concat(Tail(ss))

NL == "\n"

\* String.prototype.split("\n"): always at least one element; the last one is
\* what follows the last line break.
RECURSIVE Split(_)
Split(s) ==
    IF \A i \in 1..Len(s) : s[i] # NL
    THEN <<s>>
    ELSE LET i == CHOOSE k \in 1..Len(s) :
                      s[k] = NL /\ \A j \in 1..(k - 1) : s[j] # NL
         IN  <<SubSeq(s, 1, i - 1)>> \o Split(SubSeq(s, i + 1, Len(s)))

WhiteSpace == {" ", "\r", "\t", NL}

\* String.prototype.trim()
RECURSIVE TrimStart(_)
TrimStart(s) ==
    IF s # <<>> /\ Head(s) \in WhiteSpace THEN TrimStart(Tail(s)) ELSE s

RECURSIVE TrimEnd(_)
TrimEnd(s) ==
    IF s # <<>> /\ Last(s) \in WhiteSpace THEN TrimEnd(Front(s)) ELSE s

Trim(s) == TrimEnd(TrimStart(s))

DataPrefix == <<"d", "a", "t", "a", ":", " ">>

StartsWith(s, p) == Len(s) >= Len(p) /\ SubSeq(s, 1, Len(p)) = p

\* String.prototype.slice(6)
Slice(s, n) == SubSeq(s, n + 1, Len(s))

DoneSentinel == <<"[", "D", "O", "N", "E", "]">>

\* The names a frame's "choices" value can have in a body.
ChoiceNames == {"A", "B"}

\* JSON.parse on the payloads that occur in the bodies. The document {A}
\* abbreviates {"choices":A}, {} is an object without "choices"; every
\* other text is a SyntaxError.
JsonParse(data) ==
    IF Len(data) = 3 /\ data[1] = "{" /\ data[3] = "}" /\ data[2] \in ChoiceNames
    THEN [ok |-> TRUE, choices |-> data[2]]
    ELSE IF data = <<"{", "}">>
    THEN [ok |-> TRUE, choices |-> Undefined]
    ELSE [ok |-> FALSE, choices |-> Undefined]

\* new StreamChunk(parsed.choices)
StreamChunk(choices) == [choices |-> choices]

\* A strict decoder: a payload that is not valid JSON ends the sequence.
LineStepStrict(line) ==
    LET trimmed == Trim(line) IN
    IF trimmed = <<>> \/ ~StartsWith(trimmed, DataPrefix)
    THEN [kind |-> "continue", chunk |-> Undefined]
    ELSE LET parsed == JsonParse(Slice(trimmed, 6)) IN
         IF parsed.ok
         THEN [kind |-> "yield", chunk |-> StreamChunk(parsed.choices)]
         ELSE [kind |-> "return", chunk |-> Undefined]

\* A decoder that treats the sentinel as one more malformed payload.
LineStepNoSentinel(line) ==
    LET trimmed == Trim(line) IN
    IF trimmed = <<>> \/ ~StartsWith(trimmed, DataPrefix)
    THEN [kind |-> "continue", chunk |-> Undefined]
    ELSE LET parsed == JsonParse(Slice(trimmed, 6)) IN
         IF parsed.ok
         THEN [kind |-> "yield", chunk |-> StreamChunk(parsed.choices)]
         ELSE [kind |-> "continue", chunk |-> Undefined]

\* One pass of the body of the for-loop over lines: what the line makes the
\* generator do.
LineStep(line) ==
    LET trimmed == Trim(line) IN
    IF trimmed = <<>> \/ ~StartsWith(trimmed, DataPrefix)
    THEN [kind |-> "continue", chunk |-> Undefined]
    ELSE LET data == Slice(trimmed, 6) IN
         IF data = DoneSentinel
         THEN [kind |-> "return", chunk |-> Undefined]
         ELSE LET parsed == JsonParse(data) IN
              IF parsed.ok
              THEN [kind |-> "yield", chunk |-> StreamChunk(parsed.choices)]
              ELSE [kind |-> "continue", chunk |-> Undefined]

\* The for-loop over lines, run from its current position to the generator's
\* next suspension: a yield, the return at the sentinel, or the end of the
\* lines (the next reader.read()).
RECURSIVE RunLines(_)
RunLines(ls) ==
    IF ls = <<>>
    THEN [kind |-> "read", chunk |-> Undefined, rest |-> <<>>]
    ELSE LET step == LineStep(Head(ls)) IN
         IF step.kind = "continue"
         THEN RunLines(Tail(ls))
         ELSE [kind |-> step.kind, chunk |-> step.chunk, rest |-> Tail(ls)]

\* A decoder that forgets the partial line at the end of a chunk.
RetainedDropped(ls) == <<>>

\* buffer = lines.pop() || ""
Retained(ls) == Last(ls)

\* const lines = buffer.split("\n") after the pop
Complete(ls) == Front(ls)

\* The generator resumes with the lines ls still to process.
Resume(ls) ==
    LET run == RunLines(ls) IN
    /\ lines' = run.rest
    /\ emitted' = IF run.kind = "yield" THEN Append(emitted, run.chunk) ELSE emitted
    /\ sse_pc' = CASE run.kind = "yield" -> "yield"
                   [] run.kind = "return" -> "ended"
                   [] OTHER -> "read"
    /\ sse_exit' = IF run.kind = "return" THEN "sentinel" ELSE sse_exit

\* ------------------------------------------------ SSE decoder: the bodies

Seg(payload) == DataPrefix \o payload

Segments ==
    { Seg(<<"{", "A", "}">>) \o <<NL>>,
      <<" ">> \o Seg(<<"{", "B", "}">>) \o <<"\r", NL>>,
      Seg(<<"{", "A">>) \o <<NL>>,
      Seg(DoneSentinel) \o <<NL>>,
      <<NL>>,
      Seg(<<"{", "B", "}">>) }

Bodies ==
    { Concat(ss) : ss \in UNION { [1..n -> Segments] : n \in 0..MaxSegments } }

\* ------------------------------------------------ SSE decoder: the actions

\* ------------------------------------------------- the loops: the data

\* Calls a response may carry; frames of one streamed iteration.
MaxCap == 2

MaxFrames == 2

\* maxToolIterations as the caller passes it: nothing in the code checks it.
Caps == (0 - 1)..MaxCap

\* The tools the caller registered: toolMap holds one tool.
Registry == {"get_weather"}

\* A ToolCall {id, type: "function", function: {name, arguments}}.
ToolCall(id, name, arguments) == [id |-> id, name |-> name, arguments |-> arguments]

\* JSON.parse on the argument strings that occur: only {} is a JSON text.
JsonValid(text) == text = "{}"

\* What a registered tool does with the arguments it is given: schema.parse
\* may throw a ZodError, the handler may throw an Error, throw something
\* else, or return a string, an object, or a value JSON.stringify rejects
\* (a BigInt, a cyclic object).
Behaviours ==
    {"zod_error", "throws_error", "throws_other",
     "returns_string", "returns_object", "returns_bigint"}

NoResult == [type |-> "none", value |-> ""]

ErrorResult(message) == [type |-> "error", value |-> message]

\* toolMap.get(toolName) finds a tool.
ToolLookupAny(toolName) == TRUE

ToolLookup(toolName) == toolName \in Registry

\* tool.execute(rawArgs) is reached: the validator runs, and the handler
\* after it unless the validator threw.
Invocations(toolCall, behaviour) ==
    IF ToolLookup(toolCall.name) /\ JsonValid(toolCall.arguments)
    THEN IF behaviour = "zod_error"
         THEN <<[step |-> "validate", call |-> toolCall]>>
         ELSE <<[step |-> "validate", call |-> toolCall],
                [step |-> "handler", call |-> toolCall]>>
    ELSE <<>>

\* The body of the for-loop over the tool calls up to "let result" being set.
Execute(toolCall, behaviour) ==
    IF ToolLookup(toolCall.name)
    THEN IF ~JsonValid(toolCall.arguments)
         THEN ErrorResult("Tool execution failed: Unexpected token")
         ELSE CASE behaviour = "zod_error" ->
                       ErrorResult("Invalid arguments: Required")
                [] behaviour = "throws_error" ->
                       ErrorResult("Tool execution failed: boom")
                [] behaviour = "throws_other" ->
                       ErrorResult("Tool execution failed")
                [] behaviour = "returns_string" ->
                       [type |-> "string", value |-> "sunny"]
                [] behaviour = "returns_object" ->
                       [type |-> "object", value |-> "{\"temp\":20}"]
                [] OTHER ->
                       [type |-> "bigint", value |-> "20n"]
    ELSE ErrorResult("Unknown tool: " \o toolCall.name)

\* JSON.stringify(result) throws a TypeError.
StringifyThrows(res) == res.type = "bigint"

\* typeof result === "string" ? result : JSON.stringify(result)
ToolContent(res) ==
    CASE res.type = "string" -> res.value
      [] res.type = "error" -> "{\"error\":\"" \o res.value \o "\"}"
      [] OTHER -> res.value

Message(r, c, calls, id) ==
    [role |-> r, content |-> c, tool_calls |-> calls, tool_call_id |-> id]

UserMessage == Message("user", "What is the weather in Paris?", <<>>, Undefined)

\* A tool message that does not name the call it answers.
ToolMessageNoId(toolCall, res) == Message("tool", ToolContent(res), <<>>, Undefined)

ToolMessage(toolCall, res) == Message("tool", ToolContent(res), <<>>, toolCall.id)

\* while (iterations < maxToolIterations), with the bound <= in place of <.
LoopConditionOffByOne(i, cap) == i <= cap

\* while (iterations < maxToolIterations)
LoopCondition(i, cap) == i < cap

\* ---- the calls

\* send(options), stream(options) and stream(model, input), with a string or
\* an InputObject as input.
Calls ==
    { [op |-> "send", form |-> "options", input |-> i] : i \in {"string", "object"} }
    \cup { [op |-> "stream", form |-> f, input |-> i] :
              f \in {"options", "positional"}, i \in {"string", "object"} }

NoCall == [op |-> "none", form |-> "none", input |-> "none"]

\* The call that reaches sendSimple (op "send") or _streamSimple ("stream").
SimpleCall(op) == [op |-> op, form |-> "options", input |-> "string"]

\* A dispatch that takes every input for a string.
IsSimpleAlways(input) == TRUE

\* typeof options.input === "string"
IsSimple(input) == input = "string"

\* Which private method send or stream hands the call to.
Route(c) ==
    IF c.op = "send"
    THEN IF IsSimple(c.input) THEN "send" ELSE "send_advanced"
    ELSE IF c.form = "positional" THEN "stream_advanced"
    ELSE IF IsSimple(c.input) THEN "stream" ELSE "stream_advanced"

\* ---- SendResponse: the choices and the getters

\* JavaScript values: undefined, null, a string, an array, an object.
JsUndefined == [t |-> "undefined"]

JsNull == [t |-> "null"]

JsString(v) == [t |-> "string", v |-> v]

JsArray(v) == [t |-> "array", v |-> v]

\* A choice's message {content, tool_calls}.
JsMessage(c, calls) == [t |-> "object", content |-> c, tool_calls |-> calls]

\* A Choice {message, finish_reason}.
JsChoice(m, f) == [t |-> "object", message |-> m, finish_reason |-> f]

ChoiceValues ==
    { JsChoice(m, f) :
        m \in {JsUndefined}
               \cup { JsMessage(c, calls) :
                        c \in {JsUndefined, JsNull, JsString(""), JsString("Hi")},
                        calls \in {JsUndefined, JsArray(<<>>), JsArray(<<"call_a">>)} },
        f \in {JsUndefined, JsNull, JsString("stop")} }

\* The choice lists of a response: none, one or two choices.
ChoiceLists ==
    {<<>>} \cup { <<c>> : c \in ChoiceValues }
           \cup { <<c, d>> : c \in ChoiceValues, d \in ChoiceValues }

\* A value used as a condition.
Truthy(v) == v.t \notin {"undefined", "null"} /\ v # JsString("")

\* v ?? d
Nullish(v, d) == IF v.t \in {"undefined", "null"} THEN d ELSE v

\* this.choices[0]
FirstChoice(choices) == IF choices = <<>> THEN JsUndefined ELSE choices[1]

\* c?.message and c?.finish_reason
OptMessage(c) == IF c.t \in {"undefined", "null"} THEN JsUndefined ELSE c.message

OptFinishReason(c) == IF c.t \in {"undefined", "null"} THEN JsUndefined ELSE c.finish_reason

\* m?.content and m?.tool_calls
OptContent(m) == IF m.t \in {"undefined", "null"} THEN JsUndefined ELSE m.content

OptToolCalls(m) == IF m.t \in {"undefined", "null"} THEN JsUndefined ELSE m.tool_calls

\* get text()
SendResponse_text(choices) ==
    IF Truthy(OptContent(OptMessage(FirstChoice(choices))))
    THEN choices[1].message.content
    ELSE JsNull

\* get message()
SendResponse_message(choices) == Nullish(OptMessage(FirstChoice(choices)), JsNull)

\* get finishReason()
SendResponse_finishReason(choices) ==
    Nullish(OptFinishReason(FirstChoice(choices)), JsNull)

\* get toolCalls()
SendResponse_toolCalls(choices) ==
    Nullish(OptToolCalls(OptMessage(FirstChoice(choices))), JsNull)

NoView == [choices |-> <<>>, name |-> "unused", value |-> JsUndefined]

\* ---- usage

UsageFields ==
    {"prompt_tokens", "completion_tokens", "total_tokens", "cached_tokens",
     "reasoning_tokens"}

\* response.usage; present is FALSE when the response carries none.
Usage(present, p, c, t, cached, reasoning) ==
    [present |-> present, prompt_tokens |-> p, completion_tokens |-> c,
     total_tokens |-> t, cached_tokens |-> cached, reasoning_tokens |-> reasoning]

NoUsage == Usage(FALSE, 0, 0, 0, 0, 0)

Usages == {NoUsage, Usage(TRUE, 3, 2, 5, 1, 0), Usage(TRUE, 1, 4, 5, 0, 2)}

\* totalUsage = response.usage: the total is the response's own object.
SharedReference(k) == k

\* structuredClone(response.usage): a new object, none of the responses'.
StructuredClone(k) == 0

\* The usage objects of the responses after "+=" on the object the total is:
\* a write reaches a response's object when the total is that object.
WriteThrough(log, ref, total) ==
    IF ref \in 1..Len(log) THEN [log EXCEPT ![ref] = total] ELSE log

\* An accumulation that keeps only the latest response's usage.
AccumulateUsageLatest(total, usage) == IF usage.present THEN usage ELSE total

\* if (response.usage) { if (!totalUsage) structuredClone else += per field }
AccumulateUsage(total, usage) ==
    IF ~usage.present THEN total
    ELSE IF ~total.present THEN usage
    ELSE Usage(TRUE,
               total.prompt_tokens + usage.prompt_tokens,
               total.completion_tokens + usage.completion_tokens,
               total.total_tokens + usage.total_tokens,
               total.cached_tokens + usage.cached_tokens,
               total.reasoning_tokens + usage.reasoning_tokens)

\* ---- buffered responses

\* What callApi resolves to: shape "no_choices" is a body without a choices
\* array, "empty" one whose array is empty.
Response(shape, c, calls, usage) ==
    [shape |-> shape, content |-> c, tool_calls |-> calls,
     finish_reason |-> IF calls = <<>> THEN "stop" ELSE "tool_calls",
     usage |-> usage]

NoResponse == Response("none", "", <<>>, NoUsage)

CallPool ==
    { ToolCall("call_a", "get_weather", "{}"),
      ToolCall("call_b", "lookup", "{}"),
      ToolCall("call_c", "get_weather", "{") }

\* The tool_calls of a response: one call, or two different ones.
CallLists ==
    { <<c>> : c \in CallPool }
    \cup { <<c, d>> : c \in {ToolCall("call_a", "get_weather", "{}")},
                      d \in CallPool \ {ToolCall("call_a", "get_weather", "{}")} }
    \cup { <<ToolCall("call_b", "lookup", "{}"), ToolCall("call_c", "get_weather", "{")>> }

Responses ==
    { Response(shape, "", <<>>, u) : shape \in {"no_choices", "empty"}, u \in Usages }
    \cup { Response("ok", "It is sunny.", <<>>, u) : u \in Usages }
    \cup { Response("ok", "", calls, u) : calls \in CallLists, u \in Usages }

\* A return that hands back the last response as it came, own usage included.
SendResponseBare(response, usage) == response

\* new SendResponse(response.choices, totalUsage)
SendResponse(response, usage) == [response EXCEPT !.usage = usage]

\* ---- streamed frames

\* A StreamToolCallDelta; an absent id, name or arguments is "".
Delta(index, id, name, arguments) ==
    [index |-> index, id |-> id, name |-> name, arguments |-> arguments]

\* A decoded StreamChunk: has_choices is FALSE for a payload without a
\* choices array; otherwise the fields are those of choices[0].delta, an
\* absent role or content being "".
Frame(r, c, deltas) ==
    [has_choices |-> TRUE, role |-> r, content |-> c, tool_calls |-> deltas]

ShapelessFrame ==
    [has_choices |-> FALSE, role |-> "", content |-> "", tool_calls |-> <<>>]

NoChunk == [has_choices |-> FALSE, role |-> "none", content |-> "", tool_calls |-> <<>>]

Indices == 0..1

PlainFrames ==
    { ShapelessFrame,
      Frame("assistant", "It is sunny.", <<>>),
      Frame("", "", <<Delta(0, "call_a", "get_weather", "{}")>>),
      Frame("", "", <<Delta(1, "call_b", "lookup", "{")>>) }

\* The deltas of a fragmenting server: each carries an argument fragment
\* (possibly none) and either names its call or leaves id and name out.
CallIdOf(i) == IF i = 0 THEN "call_0" ELSE "call_1"

DeltaPool ==
    { Delta(i, CallIdOf(i), "get_weather", a) : i \in Indices, a \in {"", "{", "}"} }
    \cup { Delta(i, "", "", a) : i \in Indices, a \in {"", "{", "}"} }

FragmentedFrames ==
    { Frame(r, "", <<>>) : r \in {"", "assistant"} }
    \cup { Frame("", "", ds) : ds \in UNION { [1..n -> DeltaPool] : n \in 1..2 } }
    \cup { Frame("tool", "", <<Delta(0, CallIdOf(0), "get_weather", "")>>) }

\* get role(): choices[0]?.delta?.role if truthy, else null
ChunkRole(c) == c.role

\* get text()
ChunkText(c) == c.content

\* get toolCallDeltas()
ChunkToolCallDeltas(c) == c.tool_calls

\* ---- the accumulator

\* A role slot that keeps the first role it is given.
AccumulateRoleFirst(r, c) == IF r = "" THEN ChunkRole(c) ELSE r

\* if (chunk.role) { role = chunk.role; }
AccumulateRole(r, c) == IF ChunkRole(c) # "" THEN ChunkRole(c) ELSE r

\* (role as Message["role"]) || "assistant"
MessageRole(r) == IF r # "" THEN r ELSE "assistant"

HasIndex(acc, index) == \E k \in 1..Len(acc) : acc[k].index = index

EntryOf(acc, index) == CHOOSE k \in 1..Len(acc) : acc[k].index = index

\* ---- scripted model behaviour

\* The model's answers of a call, iteration by iteration (calls[i] is the
\* tool_calls list of the i-th answer, empty for a plain text answer), how the
\* registered tool behaves, and how a stream cuts a call into deltas.
NoScript == [calls |-> <<>>, behaviour |-> "", style |-> ""]

ScriptBehaviours == {"returns_object", "throws_error", "returns_bigint"}

\* "whole": one delta per call; "split": id, name and the first fragment,
\* then the rest of the arguments; "late_id": name and the first fragment,
\* then the id with the rest of the arguments.
Styles == {"whole", "split", "late_id"}

Scripts(cap) ==
    { [calls |-> cs, behaviour |-> b, style |-> st] :
        cs \in [1..(IF cap > 0 THEN cap ELSE 0) -> CallLists \cup {<<>>}],
        b \in ScriptBehaviours, st \in Styles }

\* The two fragments an argument string is sent in.
ArgParts(a) == IF a = "{}" THEN <<"{", "}">> ELSE <<a, "">>

\* The deltas of the calls, in ascending index order.
DeltasOf(calls, withId, withName, part) ==
    [k \in 1..Len(calls) |->
        Delta(k - 1,
              IF withId THEN calls[k].id ELSE "",
              IF withName THEN calls[k].name ELSE "",
              IF part = 0 THEN calls[k].arguments ELSE ArgParts(calls[k].arguments)[part])]

\* The frames of a stream whose answer carries the tool calls given.
ScriptFrames(calls, style) ==
    IF calls = <<>> THEN <<Frame("assistant", "It is sunny.", <<>>)>>
    ELSE CASE style = "whole" ->
                  <<Frame("assistant", "", DeltasOf(calls, TRUE, TRUE, 0))>>
           [] style = "split" ->
                  <<Frame("assistant", "", DeltasOf(calls, TRUE, TRUE, 1)),
                    Frame("", "", DeltasOf(calls, FALSE, FALSE, 2))>>
           [] OTHER ->
                  <<Frame("assistant", "", DeltasOf(calls, FALSE, TRUE, 1)),
                    Frame("", "", DeltasOf(calls, TRUE, FALSE, 2))>>

\* The frames of the iteration under way.
FramesNow == ScriptFrames(script.calls[iterations], script.style)

\* What callApi may resolve with.
ModelResponses ==
    IF profile = "scripted"
    THEN LET calls == script.calls[iterations] IN
         { Response("ok", IF calls = <<>> THEN "It is sunny." ELSE "", calls, NoUsage) }
    ELSE Responses

\* What the registered tool may do when it is run.
ToolBehaviours == IF profile = "scripted" THEN {script.behaviour} ELSE Behaviours

\* The decoder may end after the frames received so far.
StreamMayEnd == profile = "scripted" => nframes = Len(FramesNow)

\* The frames the server may send next. A plain server sends every tool call
\* whole, in one delta: it never sends a second delta for an index.
FramesOfProfile(p, acc) ==
    CASE p = "plain" ->
             { f \in PlainFrames :
                 \A k \in 1..Len(f.tool_calls) : ~HasIndex(acc, f.tool_calls[k].index) }
      [] p = "scripted" ->
             IF nframes < Len(FramesNow) THEN {FramesNow[nframes + 1]} ELSE {}
      [] OTHER -> FragmentedFrames

\* An accumulator that replaces the arguments instead of appending to them.
AccumulateDeltaOverwrite(acc, delta) ==
    IF HasIndex(acc, delta.index)
    THEN IF delta.arguments # ""
         THEN [acc EXCEPT ![EntryOf(acc, delta.index)].arguments = delta.arguments]
         ELSE acc
    ELSE Append(acc, Delta(delta.index, delta.id, delta.name, delta.arguments))

\* An accumulator that lets a later delta rename the call.
AccumulateDeltaRename(acc, delta) ==
    IF HasIndex(acc, delta.index)
    THEN LET k == EntryOf(acc, delta.index) IN
         [acc EXCEPT ![k].id = IF delta.id # "" THEN delta.id ELSE @,
                     ![k].name = IF delta.name # "" THEN delta.name ELSE @,
                     ![k].arguments = @ \o delta.arguments]
    ELSE Append(acc, Delta(delta.index, delta.id, delta.name, delta.arguments))

\* The body of "for (const delta of toolCallDeltas)".
AccumulateDelta(acc, delta) ==
    IF HasIndex(acc, delta.index)
    THEN IF delta.arguments # ""
         THEN [acc EXCEPT ![EntryOf(acc, delta.index)].arguments = @ \o delta.arguments]
         ELSE acc
    ELSE Append(acc, Delta(delta.index, delta.id, delta.name, delta.arguments))

RECURSIVE AccumulateDeltas(_, _)
AccumulateDeltas(acc, deltas) ==
    IF deltas = <<>> THEN acc
    ELSE AccumulateDeltas(AccumulateDelta(acc, Head(deltas)), Tail(deltas))

\* Array.from(toolCallsAccumulator.values()): the values in insertion order.
Finalize(acc) == [k \in 1..Len(acc) |-> ToolCall(acc[k].id, acc[k].name, acc[k].arguments)]

\* The fragments received for each index, joined as they arrive.
RECURSIVE JoinFragments(_, _)
JoinFragments(joined, deltas) ==
    IF deltas = <<>> THEN joined
    ELSE JoinFragments(
             [joined EXCEPT ![Head(deltas).index] = @ \o Head(deltas).arguments],
             Tail(deltas))

NoFragments == [i \in Indices |-> ""]

Event(type, id, iteration) == [type |-> type, toolCallId |-> id, iteration |-> iteration]

\* The decoder runs on its own, or _streamAdvanced delegates to it (yield*).
LoopIdle ==
    /\ mode = "sse" \/ (mode = "stream_advanced" /\ pc = "delegated")
    /\ UNCHANGED loopVars

\* fetch(...), the status checks and res.body.getReader()
SSE_Fetch ==
    /\ sse_pc = "fetch"
    /\ \E res \in {"ok", "not_ok", "no_body"} :
         \/ /\ res = "ok"
            /\ reader' = "open"
            /\ sse_pc' = "read"
            /\ UNCHANGED sse_exit
         \/ /\ res = "not_ok"
            /\ reader' = "closed"      \* res.text() reads the body to its end
            /\ sse_pc' = "ended"
            /\ sse_exit' = "request_error"
         \/ /\ res = "no_body"
            /\ reader' = "none"
            /\ sse_pc' = "ended"
            /\ sse_exit' = "request_error"
    /\ UNCHANGED <<body, pos, buffer, lines, emitted>>
    /\ LoopIdle

\* A decoder that reads ahead: it takes the next chunk from the transport
\* while the consumer still holds the frame last yielded.
SSE_ReadChunkEager ==
    /\ sse_pc \in {"read", "yield"}
    /\ pos < Len(body)
    /\ \E n \in 1..(Len(body) - pos) :
         LET value == SubSeq(body, pos + 1, pos + n)
             split == Split(buffer \o value)
         IN  /\ pos' = pos + n
             /\ buffer' = Retained(split)
             /\ IF sse_pc = "read"
                THEN Resume(Complete(split))
                ELSE /\ lines' = lines \o Complete(split)
                     /\ UNCHANGED <<emitted, sse_pc, sse_exit>>
    /\ UNCHANGED <<body, reader>>
    /\ LoopIdle

\* reader.read() delivers the next n characters; the lines they complete are
\* processed up to the first yield.
SSE_ReadChunk ==
    /\ sse_pc = "read"
    /\ pos < Len(body)
    /\ \E n \in 1..(Len(body) - pos) :
         LET value == SubSeq(body, pos + 1, pos + n)
             split == Split(buffer \o value)
         IN  /\ pos' = pos + n
             /\ buffer' = Retained(split)
             /\ Resume(Complete(split))
    /\ UNCHANGED <<body, reader>>
    /\ LoopIdle

\* A decoder that, at the end of the body, decodes what is left in the buffer
\* as a last line.
SSE_ReadDoneFlush ==
    /\ sse_pc = "read"
    /\ pos = Len(body)
    /\ reader' = "closed"
    /\ sse_pc' = "ended"
    /\ sse_exit' = "end_of_body"
    /\ LET run == RunLines(<<buffer>>) IN
       emitted' = IF run.kind = "yield" THEN Append(emitted, run.chunk) ELSE emitted
    /\ buffer' = <<>>
    /\ UNCHANGED <<body, pos, lines>>
    /\ LoopIdle

\* reader.read() reports done: the body is at its end.
SSE_ReadDone ==
    /\ sse_pc = "read"
    /\ pos = Len(body)
    /\ reader' = "closed"
    /\ sse_pc' = "ended"
    /\ sse_exit' = "end_of_body"
    /\ UNCHANGED <<body, pos, buffer, lines, emitted>>
    /\ LoopIdle

\* reader.read() rejects: the connection failed.
SSE_ReadError ==
    /\ sse_pc = "read"
    /\ reader' = "errored"
    /\ sse_pc' = "ended"
    /\ sse_exit' = "read_error"
    /\ UNCHANGED <<body, pos, buffer, lines, emitted>>
    /\ LoopIdle

\* The consumer asks for the next frame: the for-loop goes on.
SSE_Next ==
    /\ sse_pc = "yield"
    /\ Resume(lines)
    /\ UNCHANGED <<body, pos, reader, buffer>>
    /\ LoopIdle

\* The consumer abandons the sequence (generator.return() at the yield):
\* there is no finally block, the generator just ends.
SSE_Return ==
    /\ sse_pc = "yield"
    /\ sse_pc' = "ended"
    /\ sse_exit' = "abandoned"
    /\ UNCHANGED <<body, pos, reader, buffer, lines, emitted>>
    /\ LoopIdle

SSEInitVars ==
    /\ pos = 0
    /\ reader = "none"
    /\ buffer = <<>>
    /\ lines = <<>>
    /\ sse_pc = "fetch"
    /\ sse_exit = "none"
    /\ emitted = <<>>

LoopUnused ==
    /\ view = NoView
    /\ call = NoCall
    /\ mode = "sse"
    /\ profile = "plain"
    /\ script = NoScript
    /\ maxToolIterations = 0
    /\ iterations = 0
    /\ messages = <<>>
    /\ pc = "unused"
    /\ outcome = "none"
    /\ requests = 0
    /\ totalUsage = NoUsage
    /\ totalRef = 0
    /\ usageLog = <<>>
    /\ returned = NoResponse
    /\ role = ""
    /\ content = ""
    /\ toolCallsAccumulator = <<>>
    /\ chunk = NoChunk
    /\ nframes = 0
    /\ toolCalls = <<>>
    /\ ti = 0
    /\ result = NoResult
    /\ events = <<>>
    /\ fragments = NoFragments
    /\ roles = <<>>
    /\ invoked = <<>>

InitSSE ==
    /\ body \in Bodies
    /\ SSEInitVars
    /\ LoopUnused

NextSSE ==
    \/ SSE_Fetch
    \/ SSE_ReadChunk
    \/ SSE_ReadDone
    \/ SSE_ReadError
    \/ SSE_Next
    \/ SSE_Return

SpecSSE == InitSSE /\ [][NextSSE]_vars

\* ------------------------------------------------ the loops: the actions

SSEIdle == UNCHANGED sseVars

SSEUnused ==
    /\ body = <<>>
    /\ SSEInitVars

\* The call ends: it returns, throws, or its consumer abandons it.
Ends(how) ==
    /\ pc' = "done"
    /\ outcome' = how

\* A loop that tests its condition after the body (do ... while): the first
\* iteration runs whatever the cap.
EnterLoopDoWhile ==
    IF iterations = 0 \/ LoopCondition(iterations, maxToolIterations)
    THEN /\ iterations' = iterations + 1
         /\ requests' = requests + 1
         /\ pc' = "awaiting"
         /\ UNCHANGED outcome
    ELSE /\ Ends("max_iterations")
         /\ UNCHANGED <<iterations, requests>>

\* The while condition, and the request of the iteration it lets in; the
\* throw after the loop otherwise.
EnterLoop ==
    IF LoopCondition(iterations, maxToolIterations)
    THEN /\ iterations' = iterations + 1
         /\ requests' = requests + 1
         /\ pc' = "awaiting"
         /\ UNCHANGED outcome
    ELSE /\ Ends("max_iterations")
         /\ UNCHANGED <<iterations, requests>>

\* ---- Edgee.sendSimple

\* sendSimple up to its first await.
SendStart ==
    /\ mode = "send"
    /\ pc = "start"
    /\ EnterLoop
    /\ UNCHANGED <<view, call, mode, profile, script, maxToolIterations, messages, totalUsage, totalRef, usageLog,
                   returned, role, content, toolCallsAccumulator, chunk, nframes,
                   toolCalls, ti, result, events, fragments, roles, invoked>>
    /\ SSEIdle

\* callApi throws: a non-success status, or the fetch or the body read fails.
SendCallFails ==
    /\ mode = "send"
    /\ pc = "awaiting"
    /\ \E how \in {"request_error", "transport_error"} : Ends(how)
    /\ UNCHANGED <<view, call, mode, profile, script, maxToolIterations, iterations, messages, requests,
                   totalUsage, totalRef, usageLog, returned, role, content,
                   toolCallsAccumulator, chunk, nframes, toolCalls, ti, result,
                   events, fragments, roles, invoked>>
    /\ SSEIdle

\* callApi resolves: usage is accumulated, and the call returns or the
\* assistant message is pushed and the first tool call is reached.
SendCallApi ==
    /\ mode = "send"
    /\ pc = "awaiting"
    /\ \E response \in ModelResponses :
         IF response.shape = "no_choices"
         THEN \* response.choices[0] on undefined: a TypeError
              /\ Ends("shape_error")
              /\ UNCHANGED <<messages, totalUsage, totalRef, usageLog, returned, toolCalls, ti>>
         ELSE LET total == AccumulateUsage(totalUsage, response.usage)
                  first == response.usage.present /\ ~totalUsage.present
                  ref == IF first THEN StructuredClone(Len(usageLog) + 1) ELSE totalRef
              IN
              /\ totalUsage' = total
              /\ totalRef' = ref
              /\ usageLog' = IF response.usage.present /\ ~first
                             THEN Append(WriteThrough(usageLog, ref, total), response.usage)
                             ELSE Append(usageLog, response.usage)
              /\ IF response.shape = "empty" \/ response.tool_calls = <<>>
                 THEN /\ returned' = SendResponse(response, total)
                      /\ Ends("success")
                      /\ UNCHANGED <<messages, toolCalls, ti>>
                 ELSE /\ messages' = Append(messages,
                             Message("assistant",
                                     IF response.content = "" THEN Undefined
                                     ELSE response.content,
                                     response.tool_calls, Undefined))
                      /\ toolCalls' = response.tool_calls
                      /\ ti' = 1
                      /\ pc' = "tool"
                      /\ UNCHANGED <<returned, outcome>>
    /\ UNCHANGED <<view, call, mode, profile, script, maxToolIterations, iterations, requests, role,
                   content, toolCallsAccumulator, chunk, nframes, result, events,
                   fragments, roles, invoked>>
    /\ SSEIdle

\* A loop that does not wait for the remaining tool calls of the iteration:
\* the next request goes out after the first tool message.
SendToolEager ==
    /\ mode = "send"
    /\ pc = "tool"
    /\ \E behaviour \in ToolBehaviours :
         LET toolCall == toolCalls[ti]
             res == Execute(toolCall, behaviour)
         IN  /\ invoked' = invoked \o Invocations(toolCall, behaviour)
             /\ IF StringifyThrows(res)
                THEN /\ Ends("stringify_error")
                     /\ UNCHANGED <<messages, ti, iterations, requests>>
                ELSE /\ messages' = Append(messages, ToolMessage(toolCall, res))
                     /\ EnterLoop
                     /\ UNCHANGED ti
    /\ UNCHANGED <<view, call, mode, profile, script, maxToolIterations, totalUsage, totalRef, usageLog, returned,
                   role, content, toolCallsAccumulator, chunk, nframes, toolCalls,
                   result, events, fragments, roles>>
    /\ SSEIdle

\* One pass of the for-loop over the tool calls, and what follows the last.
SendTool ==
    /\ mode = "send"
    /\ pc = "tool"
    /\ \E behaviour \in ToolBehaviours :
         LET toolCall == toolCalls[ti]
             res == Execute(toolCall, behaviour)
         IN  /\ invoked' = invoked \o Invocations(toolCall, behaviour)
             /\ IF StringifyThrows(res)
                THEN /\ Ends("stringify_error")
                     /\ UNCHANGED <<messages, ti, iterations, requests>>
                ELSE /\ messages' = Append(messages, ToolMessage(toolCall, res))
                     /\ IF ti < Len(toolCalls)
                        THEN /\ ti' = ti + 1
                             /\ UNCHANGED <<pc, outcome, iterations, requests>>
                        ELSE /\ EnterLoop
                             /\ UNCHANGED ti
    /\ UNCHANGED <<view, call, mode, profile, script, maxToolIterations, totalUsage, totalRef, usageLog, returned,
                   role, content, toolCallsAccumulator, chunk, nframes, toolCalls,
                   result, events, fragments, roles>>
    /\ SSEIdle

\* ---- Edgee._streamSimple

\* The top of the while loop: the iteration's accumulators and its request.
EnterStreamLoop ==
    /\ EnterLoop
    /\ role' = ""
    /\ content' = ""
    /\ toolCallsAccumulator' = <<>>
    /\ fragments' = NoFragments
    /\ roles' = <<>>
    /\ nframes' = 0

\* The consumer's first next().
StreamStart ==
    /\ mode = "stream"
    /\ pc = "start"
    /\ EnterStreamLoop
    /\ UNCHANGED <<view, call, mode, profile, script, maxToolIterations, messages, totalUsage, totalRef, usageLog,
                   returned, chunk, toolCalls, ti, result, events, invoked>>
    /\ SSEIdle

\* _handleStreamingResponse: the fetch resolves.
StreamFetched ==
    /\ mode = "stream"
    /\ pc = "awaiting"
    /\ \/ Ends("request_error")
       \/ /\ pc' = "frames"
          /\ UNCHANGED outcome
    /\ UNCHANGED <<view, call, mode, profile, script, maxToolIterations, iterations, messages, requests,
                   totalUsage, totalRef, usageLog, returned, role, content,
                   toolCallsAccumulator, chunk, nframes, toolCalls, ti, result,
                   events, fragments, roles, invoked>>
    /\ SSEIdle

\* The decoder yields a frame: it is passed on as a chunk event.
StreamFrame ==
    /\ mode = "stream"
    /\ pc = "frames"
    /\ nframes < MaxFrames
    /\ \E frame \in FramesOfProfile(profile, toolCallsAccumulator) :
         /\ chunk' = frame
         /\ roles' = Append(roles, ChunkRole(frame))
         /\ nframes' = nframes + 1
         /\ events' = Append(events, Event("chunk", "", iterations))
         /\ pc' = "chunk"
    /\ UNCHANGED <<view, call, mode, profile, script, maxToolIterations, iterations, messages, outcome,
                   requests, totalUsage, totalRef, usageLog, returned, role, content,
                   toolCallsAccumulator, toolCalls, ti, result, fragments, invoked>>
    /\ SSEIdle

\* The decoder throws: reader.read() rejected.
StreamReadError ==
    /\ mode = "stream"
    /\ pc = "frames"
    /\ Ends("transport_error")
    /\ UNCHANGED <<view, call, mode, profile, script, maxToolIterations, iterations, messages, requests,
                   totalUsage, totalRef, usageLog, returned, role, content,
                   toolCallsAccumulator, chunk, nframes, toolCalls, ti, result,
                   events, fragments, roles, invoked>>
    /\ SSEIdle

\* The consumer resumes after a chunk event: the chunk is folded into the
\* role, the content and the accumulator.
StreamAccumulate ==
    /\ mode = "stream"
    /\ pc = "chunk"
    /\ IF ~chunk.has_choices
       THEN \* this.choices[0] on undefined: a TypeError
            /\ Ends("shape_error")
            /\ UNCHANGED <<role, content, toolCallsAccumulator, fragments, roles>>
       ELSE /\ role' = AccumulateRole(role, chunk)
            /\ content' = content \o ChunkText(chunk)
            /\ UNCHANGED roles
            /\ toolCallsAccumulator' =
                   AccumulateDeltas(toolCallsAccumulator, ChunkToolCallDeltas(chunk))
            /\ fragments' = JoinFragments(fragments, ChunkToolCallDeltas(chunk))
            /\ pc' = "frames"
            /\ UNCHANGED outcome
    /\ UNCHANGED <<view, call, mode, profile, script, maxToolIterations, iterations, messages, requests,
                   totalUsage, totalRef, usageLog, returned, chunk, nframes, toolCalls, ti,
                   result, events, invoked>>
    /\ SSEIdle

\* The decoder ends (sentinel or end of body): the generator returns, or the
\* assistant message is pushed and the first tool_start is yielded.
StreamEnd ==
    /\ mode = "stream"
    /\ pc = "frames"
    /\ StreamMayEnd
    /\ LET calls == Finalize(toolCallsAccumulator) IN
       IF calls = <<>>
       THEN /\ Ends("success")
            /\ UNCHANGED <<messages, toolCalls, ti, events>>
       ELSE /\ messages' = Append(messages,
                   Message(MessageRole(role),
                           IF content # "" THEN content ELSE Undefined,
                           calls, Undefined))
            /\ toolCalls' = calls
            /\ ti' = 1
            /\ events' = Append(events, Event("tool_start", calls[1].id, iterations))
            /\ pc' = "tool_start"
            /\ UNCHANGED outcome
    /\ UNCHANGED <<view, call, mode, profile, script, maxToolIterations, iterations, requests,
                   totalUsage, totalRef, usageLog, returned, role, content,
                   toolCallsAccumulator, chunk, nframes, result, fragments, roles, invoked>>
    /\ SSEIdle

\* The consumer resumes after tool_start: the tool runs and tool_result is
\* yielded.
StreamExecute ==
    /\ mode = "stream"
    /\ pc = "tool_start"
    /\ \E behaviour \in ToolBehaviours :
         LET toolCall == toolCalls[ti] IN
         /\ result' = Execute(toolCall, behaviour)
         /\ invoked' = invoked \o Invocations(toolCall, behaviour)
         /\ events' = Append(events, Event("tool_result", toolCall.id, iterations))
         /\ pc' = "tool_result"
    /\ UNCHANGED <<view, call, mode, profile, script, maxToolIterations, iterations, messages, outcome,
                   requests, totalUsage, totalRef, usageLog, returned, role, content,
                   toolCallsAccumulator, chunk, nframes, toolCalls, ti, fragments, roles>>
    /\ SSEIdle

\* The consumer resumes after tool_result: the tool message is pushed, and
\* the next tool_start or iteration_complete is yielded.
StreamPush ==
    /\ mode = "stream"
    /\ pc = "tool_result"
    /\ IF StringifyThrows(result)
       THEN /\ Ends("stringify_error")
            /\ UNCHANGED <<messages, ti, events>>
       ELSE /\ messages' = Append(messages, ToolMessage(toolCalls[ti], result))
            /\ UNCHANGED outcome
            /\ IF ti < Len(toolCalls)
               THEN /\ ti' = ti + 1
                    /\ events' = Append(events,
                           Event("tool_start", toolCalls[ti + 1].id, iterations))
                    /\ pc' = "tool_start"
               ELSE /\ events' = Append(events,
                           Event("iteration_complete", "", iterations))
                    /\ pc' = "iteration_complete"
                    /\ UNCHANGED ti
    /\ UNCHANGED <<view, call, mode, profile, script, maxToolIterations, iterations, requests,
                   totalUsage, totalRef, usageLog, returned, role, content,
                   toolCallsAccumulator, chunk, nframes, toolCalls, result,
                   fragments, roles, invoked>>
    /\ SSEIdle

\* The consumer resumes after iteration_complete.
StreamContinue ==
    /\ mode = "stream"
    /\ pc = "iteration_complete"
    /\ EnterStreamLoop
    /\ UNCHANGED <<view, call, mode, profile, script, maxToolIterations, messages, totalUsage, totalRef, usageLog,
                   returned, chunk, toolCalls, ti, result, events, invoked>>
    /\ SSEIdle

\* A sequence that takes note of the consumer leaving but stays resumable.
StreamReturnIgnored ==
    /\ mode = "stream"
    /\ pc \in {"chunk", "tool_start", "tool_result", "iteration_complete"}
    /\ outcome = "none"
    /\ outcome' = "abandoned"
    /\ UNCHANGED <<view, call, mode, profile, script, maxToolIterations, iterations, messages, requests,
                   totalUsage, totalRef, usageLog, returned, role, content,
                   toolCallsAccumulator, chunk, nframes, toolCalls, ti, result,
                   events, fragments, roles, invoked, pc>>
    /\ SSEIdle

\* The consumer abandons the event sequence at a yield.
StreamReturn ==
    /\ mode = "stream"
    /\ pc \in {"chunk", "tool_start", "tool_result", "iteration_complete"}
    /\ Ends("abandoned")
    /\ UNCHANGED <<view, call, mode, profile, script, maxToolIterations, iterations, messages, requests,
                   totalUsage, totalRef, usageLog, returned, role, content,
                   toolCallsAccumulator, chunk, nframes, toolCalls, ti, result,
                   events, fragments, roles, invoked>>
    /\ SSEIdle

\* ---- the specifications

LoopInitVars ==
    /\ iterations = 0
    /\ messages = <<UserMessage>>
    /\ pc = "start"
    /\ outcome = "none"
    /\ requests = 0
    /\ totalUsage = NoUsage
    /\ totalRef = 0
    /\ usageLog = <<>>
    /\ returned = NoResponse
    /\ role = ""
    /\ content = ""
    /\ toolCallsAccumulator = <<>>
    /\ chunk = NoChunk
    /\ nframes = 0
    /\ toolCalls = <<>>
    /\ ti = 0
    /\ result = NoResult
    /\ events = <<>>
    /\ fragments = NoFragments
    /\ roles = <<>>
    /\ invoked = <<>>

Init ==
    /\ view = NoView
    /\ mode \in {"send", "stream"}
    /\ call = SimpleCall(mode)
    /\ profile = "plain"
    /\ script = NoScript
    /\ maxToolIterations \in Caps
    /\ LoopInitVars
    /\ SSEUnused

NextSend ==
    \/ SendStart
    \/ SendCallFails
    \/ SendCallApi
    \/ SendTool

NextStream ==
    \/ StreamStart
    \/ StreamFetched
    \/ StreamFrame
    \/ StreamReadError
    \/ StreamAccumulate
    \/ StreamEnd
    \/ StreamExecute
    \/ StreamPush
    \/ StreamContinue
    \/ StreamReturn

Next == NextSend \/ NextStream

Spec == Init /\ [][Next]_vars

\* One streaming iteration whose frames carry arbitrarily fragmented deltas.
InitAcc ==
    /\ view = NoView
    /\ mode = "stream"
    /\ call = SimpleCall(mode)
    /\ profile = "fragmented"
    /\ script = NoScript
    /\ maxToolIterations = 1
    /\ LoopInitVars
    /\ SSEUnused

SpecAcc == InitAcc /\ [][NextStream]_vars

\* sendSimple or _streamSimple against a model and a tool that follow a script.
InitEq ==
    /\ view = NoView
    /\ mode \in {"send", "stream"}
    /\ call = SimpleCall(mode)
    /\ profile = "scripted"
    /\ maxToolIterations \in Caps
    /\ script \in Scripts(maxToolIterations)
    /\ LoopInitVars
    /\ SSEUnused

SpecEq == InitEq /\ [][Next]_vars

\* ---- Edgee.send, Edgee.stream, Edgee.sendAdvanced, Edgee._streamAdvanced

\* The response bodies an advanced stream may receive.
AdvBodies == { s \o t : s \in Segments, t \in Segments }

\* send / stream look at the input and hand the call on.
Dispatch ==
    /\ pc = "call"
    /\ mode' = Route(call)
    /\ pc' = "start"
    /\ UNCHANGED <<view, call, profile, script, maxToolIterations, iterations, messages, outcome,
                   requests, totalUsage, totalRef, usageLog, returned, role, content,
                   toolCallsAccumulator, chunk, nframes, toolCalls, ti, result,
                   events, fragments, roles, invoked>>
    /\ SSEIdle

\* sendAdvanced up to its await: the one request.
AdvSendStart ==
    /\ mode = "send_advanced"
    /\ pc = "start"
    /\ requests' = requests + 1
    /\ pc' = "awaiting"
    /\ UNCHANGED <<view, call, mode, profile, script, maxToolIterations, iterations, messages,
                   outcome, totalUsage, totalRef, usageLog, returned, role, content,
                   toolCallsAccumulator, chunk, nframes, toolCalls, ti, result,
                   events, fragments, roles, invoked>>
    /\ SSEIdle

\* The fetch rejects, the status is not a success, or res.json() fails.
AdvSendFails ==
    /\ mode = "send_advanced"
    /\ pc = "awaiting"
    /\ \E how \in {"request_error", "transport_error"} : Ends(how)
    /\ UNCHANGED <<view, call, mode, profile, script, maxToolIterations, iterations, messages,
                   requests, totalUsage, totalRef, usageLog, returned, role, content,
                   toolCallsAccumulator, chunk, nframes, toolCalls, ti, result,
                   events, fragments, roles, invoked>>
    /\ SSEIdle

\* return new SendResponse(data.choices, data.usage)
AdvSendReturn ==
    /\ mode = "send_advanced"
    /\ pc = "awaiting"
    /\ \E response \in Responses :
         /\ usageLog' = Append(usageLog, response.usage)
         /\ toolCalls' = response.tool_calls
         /\ returned' = SendResponse(response, response.usage)
    /\ Ends("success")
    /\ UNCHANGED <<view, call, mode, profile, script, maxToolIterations, iterations, messages,
                   requests, totalUsage, totalRef, role, content, toolCallsAccumulator, chunk,
                   nframes, ti, result, events, fragments, roles, invoked>>
    /\ SSEIdle

\* _streamAdvanced builds the request and delegates to the decoder, whose
\* fetch is the one request; the server answers with some body.
AdvStreamStart ==
    /\ mode = "stream_advanced"
    /\ pc = "start"
    /\ requests' = requests + 1
    /\ pc' = "delegated"
    /\ body' \in AdvBodies
    /\ UNCHANGED <<view, call, mode, profile, script, maxToolIterations, iterations, messages,
                   outcome, totalUsage, totalRef, usageLog, returned, role, content,
                   toolCallsAccumulator, chunk, nframes, toolCalls, ti, result,
                   events, fragments, roles, invoked>>
    /\ UNCHANGED <<pos, reader, buffer, lines, sse_pc, sse_exit, emitted>>

InitAdv ==
    /\ view = NoView
    /\ call \in Calls
    /\ mode = "undispatched"
    /\ profile = "plain"
    /\ script = NoScript
    /\ maxToolIterations = MaxCap
    /\ iterations = 0
    /\ messages = <<UserMessage>>
    /\ pc = "call"
    /\ outcome = "none"
    /\ requests = 0
    /\ totalUsage = NoUsage
    /\ totalRef = 0
    /\ usageLog = <<>>
    /\ returned = NoResponse
    /\ role = ""
    /\ content = ""
    /\ toolCallsAccumulator = <<>>
    /\ chunk = NoChunk
    /\ nframes = 0
    /\ toolCalls = <<>>
    /\ ti = 0
    /\ result = NoResult
    /\ events = <<>>
    /\ fragments = NoFragments
    /\ roles = <<>>
    /\ invoked = <<>>
    /\ SSEUnused

NextAdv ==
    \/ Dispatch
    \/ AdvSendStart
    \/ AdvSendFails
    \/ AdvSendReturn
    \/ AdvStreamStart
    \/ NextSend
    \/ NextStream
    \/ NextSSE

SpecAdv == InitAdv /\ [][NextAdv]_vars

\* ---- SendResponse: reading the getters of a response

\* The caller reads one getter of the response.
ReadGetter(name, value) ==
    /\ view' = [view EXCEPT !.name = name, !.value = value]
    /\ UNCHANGED <<call, mode, profile, script, maxToolIterations, iterations, messages, pc,
                   outcome, requests, totalUsage, totalRef, usageLog, returned, role, content,
                   toolCallsAccumulator, chunk, nframes, toolCalls, ti, result,
                   events, fragments, roles, invoked>>
    /\ SSEIdle

ReadText ==
    /\ mode = "views"
    /\ ReadGetter("text", SendResponse_text(view.choices))

ReadMessage ==
    /\ mode = "views"
    /\ ReadGetter("message", SendResponse_message(view.choices))

ReadFinishReason ==
    /\ mode = "views"
    /\ ReadGetter("finishReason", SendResponse_finishReason(view.choices))

ReadToolCalls ==
    /\ mode = "views"
    /\ ReadGetter("toolCalls", SendResponse_toolCalls(view.choices))

InitViews ==
    /\ view \in { [choices |-> c, name |-> "none", value |-> JsUndefined] : c \in ChoiceLists }
    /\ call = NoCall
    /\ mode = "views"
    /\ profile = "plain"
    /\ script = NoScript
    /\ maxToolIterations = 0
    /\ iterations = 0
    /\ messages = <<>>
    /\ pc = "unused"
    /\ outcome = "none"
    /\ requests = 0
    /\ totalUsage = NoUsage
    /\ totalRef = 0
    /\ usageLog = <<>>
    /\ returned = NoResponse
    /\ role = ""
    /\ content = ""
    /\ toolCallsAccumulator = <<>>
    /\ chunk = NoChunk
    /\ nframes = 0
    /\ toolCalls = <<>>
    /\ ti = 0
    /\ result = NoResult
    /\ events = <<>>
    /\ fragments = NoFragments
    /\ roles = <<>>
    /\ invoked = <<>>
    /\ SSEUnused

NextViews ==
    \/ ReadText
    \/ ReadMessage
    \/ ReadFinishReason
    \/ ReadToolCalls

SpecViews == InitViews /\ [][NextViews]_vars

\* The decoder on its own, and the streaming loop that drains it.
InitPull ==
    \/ /\ body \in Bodies
       /\ SSEInitVars
       /\ LoopUnused
    \/ /\ Init
       /\ mode = "stream"

NextPull == NextSSE \/ NextStream

SpecPull == InitPull /\ [][NextPull]_vars

\* --------------------------------------------------- SSE decoder: claims

\* The frames the decoder yields when the whole body b arrives as one chunk
\* and the consumer takes every frame.
RECURSIVE FramesOf(_)
FramesOf(ls) ==
    LET run == RunLines(ls) IN
    IF run.kind = "yield" THEN <<run.chunk>> \o FramesOf(run.rest) ELSE <<>>

OneChunkFrames(b) == IF b = <<>> THEN <<>> ELSE FramesOf(Complete(Split(b)))

SSEFinished == sse_pc = "ended" /\ sse_exit \in {"end_of_body", "sentinel"}

\* C1: however the body is split into chunks, the frames yielded so far are
\* the first of those the same body yields when it arrives as one chunk, and
\* a decoding that runs to its end (end of body or sentinel) has yielded
\* exactly those frames.
C1_ChunkingInvariance ==
    /\ IsPrefix(emitted, OneChunkFrames(body))
    /\ SSEFinished => emitted = OneChunkFrames(body)

\* C1 witness: two different frames have been yielded and the last chunk
\* read ended inside a line, with more of the body still to come.
C1_Witness ==
    /\ sse_pc = "yield"
    /\ Len(emitted) >= 2
    /\ emitted[1] # emitted[2]
    /\ lines = <<>>
    /\ buffer # <<>>
    /\ pos < Len(body)

\* C3: whenever the decoded-frame sequence has ended, the response-body
\* reader has been closed (cancelled, released, read to its end or failed).
C3_TransportReleased == sse_pc = "ended" => reader # "open"

\* The newline-terminated lines of the body.
BodyLines == IF body = <<>> THEN <<>> ELSE Complete(Split(body))

IsSentinelLine(line) == Trim(line) = DataPrefix \o DoneSentinel

HasSentinelLine == \E i \in 1..Len(BodyLines) : IsSentinelLine(BodyLines[i])

FirstSentinel ==
    CHOOSE i \in 1..Len(BodyLines) :
        IsSentinelLine(BodyLines[i]) /\ \A j \in 1..(i - 1) : ~IsSentinelLine(BodyLines[j])

\* The well-formed data frames of the lines ls, none left out.
RECURSIVE DataFrames(_)
DataFrames(ls) ==
    IF ls = <<>> THEN <<>>
    ELSE LET t == Trim(Head(ls))
             p == IF StartsWith(t, DataPrefix) THEN JsonParse(Slice(t, 6))
                  ELSE [ok |-> FALSE, choices |-> Undefined]
         IN  (IF p.ok THEN <<StreamChunk(p.choices)>> ELSE <<>>) \o DataFrames(Tail(ls))

FramesBeforeSentinel == DataFrames(SubSeq(BodyLines, 1, FirstSentinel - 1))

\* C7: when the body holds a line whose payload is exactly [DONE], no frame
\* of a later line is ever emitted, the sequence ends at the sentinel with
\* exactly the frames before it and without an error, and the decoder never
\* reads on to the end of the body.
C7_SentinelTerminates ==
    HasSentinelLine =>
        /\ IsPrefix(emitted, FramesBeforeSentinel)
        /\ sse_exit = "sentinel" => sse_pc = "ended" /\ emitted = FramesBeforeSentinel
        /\ sse_exit # "end_of_body"
        /\ sse_pc = "read" => pos < Len(body)

\* C7 witness: the decoder ended at the sentinel of a body that goes on with
\* a data frame and ends in a partial line, all of it delivered in the chunk
\* that held the sentinel.
C7_Witness ==
    /\ sse_exit = "sentinel"
    /\ sse_pc = "ended"
    /\ pos = Len(body)
    /\ buffer # <<>>
    /\ lines # <<>>
    /\ DataFrames(lines) # <<>>

\* The lines completed by the part of the body read so far.
DeliveredLines == IF pos = 0 THEN <<>> ELSE Complete(Split(SubSeq(body, 1, pos)))

\* The delivered lines the for-loop has gone through.
Processed == SubSeq(DeliveredLines, 1, Len(DeliveredLines) - Len(lines))

\* A data line whose payload is neither the sentinel nor valid JSON.
IsMalformedLine(line) ==
    LET t == Trim(line) IN
    /\ StartsWith(t, DataPrefix)
    /\ Slice(t, 6) # DoneSentinel
    /\ ~JsonParse(Slice(t, 6)).ok

\* C11: a data line whose payload is not valid JSON neither ends nor fails
\* the sequence: while the decoder runs, the frames emitted are exactly the
\* well-formed data frames of all the lines gone through, in order, no line
\* is left unprocessed when the next chunk is read, and the sequence ends at
\* the sentinel only when the body holds a sentinel line; at the end of a
\* body without one, every well-formed data frame has been emitted.
C11_MalformedSkipped ==
    /\ sse_pc \in {"read", "yield"} =>
           /\ emitted = DataFrames(Processed)
           /\ \A i \in 1..Len(Processed) : ~IsSentinelLine(Processed[i])
    /\ sse_pc = "read" => lines = <<>>
    /\ sse_exit = "sentinel" => HasSentinelLine
    /\ sse_exit = "end_of_body" => emitted = DataFrames(BodyLines)

\* C11 witness: the body was read to its end, and a frame was emitted from
\* a line that follows a malformed data line.
C11_Witness ==
    /\ sse_exit = "end_of_body"
    /\ \E i, j \in 1..Len(BodyLines) :
           /\ i < j
           /\ IsMalformedLine(BodyLines[i])
           /\ DataFrames(<<BodyLines[j]>>) # <<>>
    /\ emitted # <<>>

\* The call was given a structured input, or is stream(model, input).
IsAdvancedCall == call.input = "object" \/ call.form = "positional"

ChunkEventsNow ==
    { k \in 1..Len(events) :
        events[k].type = "chunk" /\ events[k].iteration = iterations }

\* Every frame decoded in the current iteration was surfaced as a chunk event.
C22_Surfaced ==
    (mode = "stream" /\ pc # "done") => Cardinality(ChunkEventsNow) = nframes

C22_Step ==
    /\ pos' # pos => sse_pc = "read" /\ lines = <<>>
    /\ sse_pc = "yield" => buffer' = buffer /\ Len(lines') <= Len(lines)
    /\ emitted' # emitted =>
           /\ Len(emitted') = Len(emitted) + 1
           /\ SubSeq(emitted', 1, Len(emitted)) = emitted
           /\ sse_pc' = "yield"
    /\ (mode = "stream" /\ nframes' > nframes) =>
           /\ pc = "frames" /\ pc' = "chunk"
           /\ nframes' = nframes + 1
           /\ events' = Append(events, Event("chunk", "", iterations))
           /\ UNCHANGED <<role, content, toolCallsAccumulator>>
    /\ (mode = "stream"
           /\ <<role, content, toolCallsAccumulator>>' # <<role, content, toolCallsAccumulator>>) =>
           \/ /\ pc = "chunk"
              /\ Last(events) = Event("chunk", "", iterations)
              /\ nframes' = nframes
              /\ events' = events
           \/ <<role, content, toolCallsAccumulator, nframes>>' = <<"", "", <<>>, 0>>

\* C22: the decoder takes a chunk from the transport only while it is asked
\* for a frame and has no line of the earlier chunks left to go through; it
\* yields one frame at a time and stops there until resumed; the streaming
\* loop passes each decoded frame on as a chunk event before folding it, and
\* folds it before the next frame is decoded.
C22_PullBased == []C22_Surfaced /\ [][C22_Step]_vars

\* C22 witness: the decoder is stopped at a yielded frame with a further
\* line of the same chunk not gone through and more of the body unread.
C22_Witness ==
    /\ mode = "sse"
    /\ sse_pc = "yield"
    /\ DataFrames(lines) # <<>>
    /\ pos < Len(body)
    /\ Len(emitted) = 1

\* What follows the last line break of the body.
BodyTail == Retained(Split(body))

\* C26: for a body without a sentinel line, no frame is ever emitted beyond
\* the well-formed data frames of its newline-terminated lines, and when the
\* body is read to its end the sequence ends there without an error, having
\* emitted exactly those frames, the unterminated rest left undecoded in the
\* buffer.
C26_UnterminatedDropped ==
    (mode = "sse" /\ ~HasSentinelLine) =>
        /\ IsPrefix(emitted, DataFrames(BodyLines))
        /\ sse_exit # "sentinel"
        /\ sse_exit = "end_of_body" =>
               /\ sse_pc = "ended"
               /\ emitted = DataFrames(BodyLines)
               /\ buffer = BodyTail
               /\ lines = <<>>

\* C26 witness: a body of a terminated frame followed by a well-formed data
\* line without its line break was read to the end, and one frame came out.
C26_Witness ==
    /\ mode = "sse"
    /\ sse_exit = "end_of_body"
    /\ DataFrames(<<BodyTail>>) # <<>>
    /\ Len(DataFrames(BodyLines)) = 1
    /\ Len(emitted) = 1

\* ------------------------------------------------- SendResponse: claims

\* The field of choices[0] a getter stands for; undefined when the choice
\* list is empty or the message is missing.
FieldOf(name, choices) ==
    IF choices = <<>> THEN JsUndefined
    ELSE LET c == choices[1] IN
         CASE name = "message" -> c.message
           [] name = "finishReason" -> c.finish_reason
           [] name = "text" ->
                  IF c.message.t = "object" THEN c.message.content ELSE JsUndefined
           [] OTHER ->
                  IF c.message.t = "object" THEN c.message.tool_calls ELSE JsUndefined

\* C14: each of text, message, finishReason and toolCalls is null when the
\* field of choices[0] it stands for is absent (the choice list being empty
\* included), and the value of that field otherwise.
C14_ViewsFromFirstChoice ==
    view.name \in {"text", "message", "finishReason", "toolCalls"} =>
        LET field == FieldOf(view.name, view.choices) IN
        view.value = IF field = JsUndefined THEN JsNull ELSE field

\* ------------------------------------------------------ the loops: claims

Max0(n) == IF n > 0 THEN n ELSE 0

\* The positions of the messages that carry tool calls.
Groups == { a \in DOMAIN messages : messages[a].tool_calls # <<>> }

RECURSIVE SumLen(_)
SumLen(S) ==
    IF S = {} THEN 0
    ELSE LET a == CHOOSE x \in S : TRUE
         IN  1 + Len(messages[a].tool_calls) + SumLen(S \ {a})

\* Every tool call of every iteration so far has its tool message.
AllToolMessagesPushed == Len(messages) = 1 + SumLen(Groups)

\* The cap-th iteration carried tool calls and all of them are done.
Exhausted ==
    /\ pc # "start"
    /\ Cardinality(Groups) = Max0(maxToolIterations)
    /\ AllToolMessagesPushed

C13_Returned ==
    outcome = "success" =>
        /\ pc = "done"
        /\ requests = iterations
        /\ iterations = Cardinality(Groups) + 1
        /\ AllToolMessagesPushed
        /\ mode = "send" =>
               /\ returned.shape \in {"ok", "empty"}
               /\ returned.tool_calls = <<>>
               /\ returned.usage = totalUsage
               /\ returned.shape = "ok" =>
                      returned.content = "It is sunny." /\ returned.finish_reason = "stop"
        /\ mode = "stream" => toolCallsAccumulator = <<>>

C13_Exit ==
    /\ (mode = "send" /\ pc = "awaiting" /\ Len(usageLog') > Len(usageLog)
           /\ messages' = messages) =>
           /\ outcome' = "success"
           /\ requests' = requests
           /\ invoked' = invoked
    /\ (mode = "stream" /\ pc = "frames" /\ toolCallsAccumulator = <<>>
           /\ pc' \notin {"frames", "chunk"}) =>
           /\ outcome' \in {"success", "transport_error"}
           /\ requests' = requests
           /\ invoked' = invoked
           /\ messages' = messages
           /\ events' = events
    /\ outcome = "success" => UNCHANGED vars

\* C13: in simple mode an iteration whose result carries no tool call ends
\* the call successfully at once, with no further request, no message and
\* no tool execution, and nothing happens after that; every iteration
\* before it carried tool calls, so a run without tool calls takes exactly
\* one iteration; the buffered call returns that iteration's choices
\* (content and finish_reason as received) with the accumulated usage.
C13_ToolFreeExit == []C13_Returned /\ [][C13_Exit]_vars

\* C13 witness: sendSimple has returned the text of its second iteration.
C13_Witness ==
    /\ mode = "send"
    /\ outcome = "success"
    /\ iterations = 2
    /\ returned.content = "It is sunny."
    /\ totalUsage # usageLog[2]

\* The events of one iteration come as chunk*, then tool_start and
\* tool_result in pairs, then iteration_complete; the next iteration's
\* chunks come after that.
EventGrammar ==
    \A k \in 1..Len(events) :
        LET e == events[k] IN
        /\ e.type = "chunk" =>
               \/ k = 1 /\ e.iteration = 1
               \/ k > 1 /\ events[k - 1].type = "chunk"
                        /\ events[k - 1].iteration = e.iteration
               \/ k > 1 /\ events[k - 1].type = "iteration_complete"
                        /\ events[k - 1].iteration + 1 = e.iteration
        /\ e.type = "tool_start" =>
               /\ k > 1
               /\ events[k - 1].type \in {"chunk", "tool_result"}
               /\ events[k - 1].iteration = e.iteration
               /\ k < Len(events) => events[k + 1].type = "tool_result"
        /\ e.type = "tool_result" =>
               /\ k > 1
               /\ events[k - 1] = Event("tool_start", e.toolCallId, e.iteration)
               /\ k < Len(events) =>
                      events[k + 1].type \in {"tool_start", "iteration_complete"}
        /\ e.type = "iteration_complete" =>
               /\ k > 1
               /\ events[k - 1].type = "tool_result"
               /\ events[k - 1].iteration = e.iteration
               /\ \A j \in 1..Len(events) :
                      (events[j].type = "iteration_complete"
                         /\ events[j].iteration = e.iteration) => j = k

EventsOfType(type) == { k \in 1..Len(events) : events[k].type = type }

ToolMessages == { a \in DOMAIN messages : messages[a].role = "tool" }

\* A tool message is appended only after its tool_result was taken.
MessageAfterResult ==
    mode = "stream" =>
        Cardinality(ToolMessages) =
            Cardinality(EventsOfType("tool_result"))
              - (IF pc = "tool_result" \/ (pc = "done" /\ events # <<>>
                                               /\ Last(events).type = "tool_result")
                 THEN 1 ELSE 0)

\* Unless the consumer abandons the sequence, what was started is finished.
EventsCompleted ==
    (pc = "done" /\ outcome # "abandoned" /\ events # <<>>) =>
        Last(events).type \in {"chunk", "iteration_complete"}

\* C15: within a streaming iteration that produced tool calls the chunk
\* events precede the first tool_start; every tool_start is followed by the
\* tool_result of the same call before any other tool_start; the tool
\* message of a call is appended after its tool_result; exactly one
\* iteration_complete follows the last tool_result; and no chunk of the
\* next iteration comes before it.
C15_EventOrdering ==
    /\ EventGrammar
    /\ MessageAfterResult
    /\ EventsCompleted

InFlight == pc \in {"awaiting", "frames", "chunk"}

C19_Step ==
    /\ requests' # requests =>
           /\ requests' = requests + 1
           /\ ~InFlight
           /\ Cardinality(Groups') = requests
           /\ AllToolMessagesPushed'
           /\ mode = "send" => Len(usageLog) = requests
    /\ invoked' # invoked =>
           /\ pc \in {"tool", "tool_start"}
           /\ LET ran == SubSeq(invoked', Len(invoked) + 1, Len(invoked')) IN
              /\ invoked' = invoked \o ran
              /\ \A k \in 1..Len(ran) : ran[k].call = toolCalls[ti]
              /\ Cardinality({ k \in 1..Len(ran) : ran[k].step = "handler" }) <= 1

\* C19: one call does one thing at a time. A request is issued only when
\* none is in flight, one at a time, when every earlier iteration has been
\* answered and every one of its tool calls has its tool message; a step
\* runs the validator and the handler of one tool call only, the one the
\* loop is at, while no request is in flight.
C19_Sequential == [][C19_Step]_vars

\* ms is a run of complete groups: a message of the assistant with at least
\* one tool call, then one tool message per call, in the calls' order, each
\* naming its call.
RECURSIVE CompleteGroups(_)
CompleteGroups(ms) ==
    IF ms = <<>> THEN TRUE
    ELSE LET head == Head(ms)
             n == Len(head.tool_calls)
         IN  /\ head.role = "assistant"
             /\ n > 0
             /\ Len(ms) >= 1 + n
             /\ \A k \in 1..n :
                    /\ ms[1 + k].role = "tool"
                    /\ ms[1 + k].tool_calls = <<>>
                    /\ ms[1 + k].tool_call_id = head.tool_calls[k].id
             /\ CompleteGroups(SubSeq(ms, 2 + n, Len(ms)))

TranscriptShape(ms) ==
    /\ ms # <<>>
    /\ Head(ms) = UserMessage
    /\ CompleteGroups(Tail(ms))

C23_Step ==
    /\ requests' # requests => TranscriptShape(messages')
    /\ Len(messages') >= Len(messages)
    /\ SubSeq(messages', 1, Len(messages)) = messages

RECURSIVE CallsOf(_)
CallsOf(ms) ==
    IF ms = <<>> THEN <<>> ELSE Head(ms).tool_calls \o CallsOf(Tail(ms))

\* The calls whose tool is registered and whose arguments parse.
IsRunnable(toolCall) == ToolLookup(toolCall.name) /\ JsonValid(toolCall.arguments)

IsValidateStep(e) == e.step = "validate"

\* The calls handed to tool.execute so far, in order.
RECURSIVE ExecutedCalls(_)
ExecutedCalls(es) ==
    IF es = <<>> THEN <<>>
    ELSE (IF IsValidateStep(Head(es)) THEN <<Head(es).call>> ELSE <<>>)
             \o ExecutedCalls(Tail(es))

EventsIn(type, i) ==
    { k \in 1..Len(events) : events[k].type = type /\ events[k].iteration = i }

\* The i-th message that carries tool calls.
GroupAt(i) ==
    CHOOSE a \in Groups : Cardinality({ b \in Groups : b <= a }) = i

C24_AtFailure ==
    outcome = "max_iterations" =>
        IF maxToolIterations <= 0
        THEN /\ requests = 0
             /\ invoked = <<>>
             /\ messages = <<UserMessage>>
             /\ events = <<>>
        ELSE /\ requests = maxToolIterations
             /\ Cardinality(Groups) = maxToolIterations
             /\ TranscriptShape(messages)
             /\ ExecutedCalls(invoked) = SelectSeq(CallsOf(messages), IsRunnable)
             /\ mode = "stream" =>
                    /\ Last(events) = Event("iteration_complete", "", maxToolIterations)
                    /\ \A i \in 1..maxToolIterations :
                           LET n == Len(messages[GroupAt(i)].tool_calls) IN
                           /\ Cardinality(EventsIn("tool_start", i)) = n
                           /\ Cardinality(EventsIn("tool_result", i)) = n
                           /\ Cardinality(EventsIn("iteration_complete", i)) = 1

C24_Step ==
    requests' # requests =>
        /\ Cardinality(Groups') = requests
        /\ ExecutedCalls(invoked') = SelectSeq(CallsOf(messages'), IsRunnable)

\* C24: when the call fails with the max-iterations error under a positive
\* cap, every iteration up to the cap-th has had each of its tool calls run
\* (those with a registered tool and parsable arguments reached the tool)
\* and answered by a tool message, a stream has yielded a tool_start and a
\* tool_result per call and an iteration_complete per iteration, the last
\* event being the cap-th iteration_complete, and the requests issued, each
\* carrying the groups finished before it, number the cap, so none carries
\* the last group; under a cap of 0 or less the failure comes with no
\* request, no tool run, no message and no event.
C24_CapFailureSideEffects == []C24_AtFailure /\ [][C24_Step]_vars

\* C24 witness: a stream failed at a cap of 2 after both iterations ran a
\* registered tool.
C24_Witness ==
    /\ mode = "stream"
    /\ outcome = "max_iterations"
    /\ maxToolIterations = 2
    /\ Len(ExecutedCalls(invoked)) >= 2
    /\ Len(messages) >= 5

C25_Step ==
    /\ outcome = "abandoned" => outcome' = "abandoned"
    /\ outcome' = "abandoned" =>
           /\ pc' = "done"
           /\ UNCHANGED <<requests, iterations, nframes, roles, chunk, invoked, result,
                          messages, events, role, content, toolCallsAccumulator>>

\* C25: the step by which the consumer of a simple-mode stream leaves, and
\* every step after it, issues no request, takes no frame from the decoder,
\* runs no tool, appends no message and yields no event; the sequence is
\* finished and stays so.
C25_AbandonmentStops == [][C25_Step]_vars

\* C25 witness: the consumer left at the tool_start of the first call, with
\* the assistant's message appended and the tool not run.
C25_Witness ==
    /\ outcome = "abandoned"
    /\ Last(events).type = "tool_start"
    /\ Len(messages) = 2
    /\ invoked = <<>>
    /\ IsRunnable(toolCalls[ti])

\* ---- buffered and streamed loop against the same script

RECURSIVE AllDeltas(_)
AllDeltas(frames) ==
    IF frames = <<>> THEN <<>>
    ELSE ChunkToolCallDeltas(Head(frames)) \o AllDeltas(Tail(frames))

RECURSIVE JoinArguments(_)
JoinArguments(ds) ==
    IF ds = <<>> THEN "" ELSE Head(ds).arguments \o JoinArguments(Tail(ds))

\* The frames deliver the calls as deltas: every delta belongs to a call,
\* the indices first arrive in ascending order, the fragments of a call join
\* to its arguments, and the id and the name its deltas carry are the call's.
Delivers(frames, calls) ==
    LET ds == AllDeltas(frames) IN
    /\ \A n \in 1..Len(ds) :
           /\ ds[n].index \in 0..(Len(calls) - 1)
           /\ \A j \in 0..(ds[n].index - 1) : \E m \in 1..(n - 1) : ds[m].index = j
    /\ \A k \in 1..Len(calls) :
           LET mine == SelectSeq(ds, LAMBDA d : d.index = k - 1) IN
           /\ JoinArguments(mine) = calls[k].arguments
           /\ { mine[n].id : n \in 1..Len(mine) } \ {""} = {calls[k].id}
           /\ { mine[n].name : n \in 1..Len(mine) } \ {""} = {calls[k].name}

ScriptDelivered ==
    \A i \in 1..Len(script.calls) :
        Delivers(ScriptFrames(script.calls[i], script.style), script.calls[i])

\* What running the calls of one answer does, by the script alone.
RECURSIVE RunCalls(_, _)
RunCalls(calls, b) ==
    IF calls = <<>> THEN [invoked |-> <<>>, tool_messages |-> <<>>, threw |-> FALSE]
    ELSE LET res == Execute(Head(calls), b) IN
         IF StringifyThrows(res)
         THEN [invoked |-> Invocations(Head(calls), b), tool_messages |-> <<>>,
               threw |-> TRUE]
         ELSE LET rest == RunCalls(Tail(calls), b) IN
              [invoked |-> Invocations(Head(calls), b) \o rest.invoked,
               tool_messages |-> <<ToolMessage(Head(calls), res)>> \o rest.tool_messages,
               threw |-> rest.threw]

\* What a call does from its i-th iteration on, by the script alone.
RECURSIVE Reference(_)
Reference(i) ==
    IF i > maxToolIterations
    THEN [requests |-> i - 1, invoked |-> <<>>, tool_messages |-> <<>>,
          outcome |-> "max_iterations"]
    ELSE IF script.calls[i] = <<>>
    THEN [requests |-> i, invoked |-> <<>>, tool_messages |-> <<>>,
          outcome |-> "success"]
    ELSE LET run == RunCalls(script.calls[i], script.behaviour) IN
         IF run.threw
         THEN [requests |-> i, invoked |-> run.invoked,
               tool_messages |-> run.tool_messages, outcome |-> "stringify_error"]
         ELSE LET rest == Reference(i + 1) IN
              [requests |-> rest.requests, invoked |-> run.invoked \o rest.invoked,
               tool_messages |-> run.tool_messages \o rest.tool_messages,
               outcome |-> rest.outcome]

IsToolMessage(m) == m.role = "tool"

\* What the call did: requests, tool runs, tool messages, outcome.
Observed ==
    [requests |-> requests, invoked |-> invoked,
     tool_messages |-> SelectSeq(messages, IsToolMessage), outcome |-> outcome]

\* The call ran to its end: the model answered every request and the
\* consumer took every event.
RanToEnd == outcome \in {"success", "max_iterations", "stringify_error"}

\* C27: when the model's answers are delivered as the script has them (to
\* the stream as deltas in ascending index order), a call that runs to its
\* end has issued the requests, run the tools, appended the tool messages
\* and reached the outcome that follow from the script alone, whether it is
\* sendSimple or _streamSimple: the two agree.
C27_LoopsEquivalent ==
    (profile = "scripted" /\ ScriptDelivered /\ RanToEnd) => Observed = Reference(1)

\* The two loops agree when the first delta of every call carries its id.
LoopsEquivalentIdFirst ==
    (profile = "scripted" /\ script.style # "late_id" /\ RanToEnd) =>
        Observed = Reference(1)

\* The script is delivered in each of the styles.
ScriptsAreDelivered == profile = "scripted" => ScriptDelivered

\* A stream ran two iterations of two calls each to the cap.
EquivalenceExercised ==
    /\ profile = "scripted"
    /\ mode = "stream"
    /\ script.style = "split"
    /\ outcome = "max_iterations"
    /\ Len(messages) = 7
    /\ Observed = Reference(1)

\* C19 witness: the second request is in flight after an iteration of two
\* tool calls, the first of which ran its handler.
C19_Witness ==
    /\ requests = 2
    /\ pc = "awaiting"
    /\ Len(messages) = 4
    /\ Len(invoked) >= 2

Finalized == pc \in {"tool_start", "tool_result", "iteration_complete"}

\* C4: the finalized tool-call list of a streaming iteration is sorted by
\* ascending delta index, whatever the order in which the indices arrived.
C4_FinalizedAscending ==
    Finalized =>
        /\ toolCalls = Finalize(toolCallsAccumulator)
        /\ \A i, j \in 1..Len(toolCallsAccumulator) :
               i < j => toolCallsAccumulator[i].index < toolCallsAccumulator[j].index

\* C16: every tool call of a finalized list, and so every tool_call_id of a
\* tool message, has a non-empty id, whatever the deltas were.
C16_FinalizedIdNonEmpty ==
    /\ Finalized => \A k \in 1..Len(toolCalls) : toolCalls[k].id # ""
    /\ \A a \in DOMAIN messages :
           messages[a].role = "tool" => messages[a].tool_call_id # ""

\* What one frame can add to an argument buffer.
Suffixes == { a \o b : a \in {"", "{", "}"}, b \in {"", "{", "}"} }

\* The first delta of the pending chunk that has the given index.
FirstDeltaFor(index) ==
    LET ds == ChunkToolCallDeltas(chunk)
        k == CHOOSE j \in 1..Len(ds) :
                 ds[j].index = index /\ \A i \in 1..(j - 1) : ds[i].index # index
    IN  ds[k]

C17_OnePerIndex ==
    \A i, j \in 1..Len(toolCallsAccumulator) :
        toolCallsAccumulator[i].index = toolCallsAccumulator[j].index => i = j

C17_Step ==
    \/ toolCallsAccumulator' = <<>>
    \/ /\ Len(toolCallsAccumulator') >= Len(toolCallsAccumulator)
       /\ \A k \in 1..Len(toolCallsAccumulator) :
              /\ toolCallsAccumulator'[k].index = toolCallsAccumulator[k].index
              /\ toolCallsAccumulator'[k].id = toolCallsAccumulator[k].id
              /\ toolCallsAccumulator'[k].name = toolCallsAccumulator[k].name
              /\ \E x \in Suffixes :
                     toolCallsAccumulator'[k].arguments =
                         toolCallsAccumulator[k].arguments \o x
       /\ \A k \in (Len(toolCallsAccumulator) + 1)..Len(toolCallsAccumulator') :
              LET first == FirstDeltaFor(toolCallsAccumulator'[k].index) IN
              /\ toolCallsAccumulator'[k].id = first.id
              /\ toolCallsAccumulator'[k].name = first.name

\* C17: the accumulator holds at most one record per index; a record gets
\* its id and name from the first delta of its index, and within the
\* iteration no later delta changes them: records are only added, and only
\* their argument buffers grow.
C17_IdentityFixed == []C17_OnePerIndex /\ [][C17_Step]_vars

\* C17 witness: the record of index 0, created without a name by its first
\* delta, has taken the arguments of a later delta that carried an id and a
\* name.
C17_Witness ==
    /\ pc = "frames"
    /\ nframes = 2
    /\ chunk.tool_calls # <<>>
    /\ chunk.tool_calls[1] = Delta(0, "call_0", "get_weather", "}")
    /\ Len(toolCallsAccumulator) = 1
    /\ toolCallsAccumulator[1] = Delta(0, "", "", "{}")

\* The last non-empty role of rs, "" when there is none.
RECURSIVE LastNonEmpty(_)
LastNonEmpty(rs) ==
    IF rs = <<>> THEN ""
    ELSE IF Last(rs) # "" THEN Last(rs) ELSE LastNonEmpty(Front(rs))

\* The assistant message of the current iteration.
LastGroup == CHOOSE a \in Groups : \A b \in Groups : b <= a

\* C21: once the frames received in a streaming iteration are folded, the
\* role slot is the role of the last of them that carried a non-empty role;
\* the assistant message of the iteration has that role, or "assistant" if
\* no frame carried one.
C21_RoleLastWins ==
    mode = "stream" =>
        /\ pc = "frames" => role = LastNonEmpty(roles)
        /\ Finalized =>
               /\ role = LastNonEmpty(roles)
               /\ messages[LastGroup].role =
                      (IF LastNonEmpty(roles) = "" THEN "assistant" ELSE LastNonEmpty(roles))

\* C21 witness: an iteration whose first frame had the role "assistant" and
\* whose second the role "tool" has been finalized with a tool call.
C21_Witness ==
    /\ pc = "tool_start"
    /\ roles = <<"assistant", "tool">>
    /\ messages[LastGroup].role = "tool"

\* C5: the arguments of every accumulated and of every finalized tool call
\* are the fragments received for its index, joined in arrival order; the
\* assistant message carries the finalized list.
C5_FragmentsConcatenated ==
    /\ \A k \in 1..Len(toolCallsAccumulator) :
           toolCallsAccumulator[k].arguments = fragments[toolCallsAccumulator[k].index]
    /\ Finalized =>
           /\ Len(toolCalls) = Len(toolCallsAccumulator)
           /\ \A k \in 1..Len(toolCalls) :
                  toolCalls[k].arguments = fragments[toolCallsAccumulator[k].index]
           /\ \E a \in Groups : messages[a].tool_calls = toolCalls

\* C5 witness: two tool calls have been finalized, each from two non-empty
\* fragments.
C5_Witness ==
    /\ pc = "tool_start"
    /\ Len(toolCalls) = 2
    /\ toolCalls[1].arguments = "{}"
    /\ toolCalls[2].arguments = "}{"

RECURSIVE SumField(_, _)
SumField(log, f) ==
    IF log = <<>> THEN 0
    ELSE (IF Head(log).present THEN Head(log)[f] ELSE 0) + SumField(Tail(log), f)

\* C6: when sendSimple returns after k iterations, 1 <= k <= cap, every
\* usage field of the returned response is the sum of that field over the
\* usage the k responses reported (the response has no usage when none did).
C6_UsageSummed ==
    (mode = "send" /\ outcome = "success") =>
        /\ Len(usageLog) = iterations
        /\ 1 <= iterations /\ iterations <= maxToolIterations
        /\ returned.usage.present = (\E k \in 1..Len(usageLog) : usageLog[k].present)
        /\ returned.usage.present =>
               \A f \in UsageFields : returned.usage[f] = SumField(usageLog, f)

\* C6 witness: sendSimple has returned after two iterations that reported
\* different usage.
C6_Witness ==
    /\ mode = "send"
    /\ outcome = "success"
    /\ iterations = 2
    /\ usageLog[1].present /\ usageLog[2].present
    /\ usageLog[1] # usageLog[2]

C20_Step ==
    /\ \A k \in 1..Len(usageLog) : usageLog'[k] = usageLog[k]
    /\ totalRef' = 0
    /\ totalUsage.present =>
           /\ totalUsage'.present
           /\ \A f \in UsageFields : totalUsage'[f] >= totalUsage[f]

\* C20: accumulating usage never changes the usage object of a response
\* (the running total is an object of its own from the first iteration on),
\* and with non-negative counters no field of the running total ever
\* decreases.
C20_NoAliasingMonotone == [][C20_Step]_vars

\* C20 witness: the usage of a second response has been added to a total
\* that started from the first response's usage.
C20_Witness ==
    /\ mode = "send"
    /\ Len(usageLog) = 2
    /\ usageLog[1] = Usage(TRUE, 3, 2, 5, 1, 0)
    /\ usageLog[2] = Usage(TRUE, 1, 4, 5, 0, 2)
    /\ totalUsage = Usage(TRUE, 4, 6, 10, 1, 2)

\* C8: every tool call that has been executed has exactly one tool message,
\* in its place after the assistant message and with its id, and the call
\* never fails because of a tool call.
C8_ToolNeverThrows ==
    /\ outcome # "stringify_error"
    /\ \A a \in Groups : \A j \in 1..Len(messages[a].tool_calls) :
           a + j <= Len(messages) =>
               /\ messages[a + j].role = "tool"
               /\ messages[a + j].tool_call_id = messages[a].tool_calls[j].id

UnknownToolContent(name) == "{\"error\":\"Unknown tool: " \o name \o "\"}"

\* The fixed part of the error text of a tool message: what tells the kinds
\* of error result apart, the rest being the message of the error caught.
ErrorMarker(text) ==
    CASE text = ToolContent(ErrorResult("Invalid arguments: Required")) ->
             "Invalid arguments"
      [] text \in { ToolContent(ErrorResult("Tool execution failed: boom")),
                    ToolContent(ErrorResult("Tool execution failed: Unexpected token")),
                    ToolContent(ErrorResult("Tool execution failed")) } ->
             "Tool execution failed"
      [] text \in { UnknownToolContent(n) : n \in {"get_weather", "lookup"} } ->
             "Unknown tool"
      [] OTHER -> "none"

\* The call toolCall to a registered tool ran the steps ran and was answered
\* with the tool message text: the first failing step is the last one run, and
\* it is the one reported.
Pipeline(toolCall, ran, text) ==
    ToolLookup(toolCall.name) =>
        IF ~JsonValid(toolCall.arguments)
        THEN /\ ran = <<>>
             /\ ErrorMarker(text) \notin
                    {"none", "Invalid arguments", "Tool execution failed", "Unknown tool"}
        ELSE /\ ran # <<>>
             /\ ran[1] = [step |-> "validate", call |-> toolCall]
             /\ Len(ran) = 1 => ErrorMarker(text) = "Invalid arguments"
             /\ Len(ran) > 1 =>
                    /\ ran = <<ran[1], [step |-> "handler", call |-> toolCall]>>
                    /\ ErrorMarker(text) \in {"none", "Tool execution failed"}

C18_Step ==
    /\ (mode = "send" /\ pc = "tool") =>
           /\ Len(messages') = Len(messages) + 1
           /\ Pipeline(toolCalls[ti],
                       SubSeq(invoked', Len(invoked) + 1, Len(invoked')),
                       Last(messages').content)
    /\ (mode = "stream" /\ pc = "tool_start" /\ pc' = "tool_result") =>
           /\ result'.type \in {"error", "string", "object"}
           /\ Pipeline(toolCalls[ti],
                       SubSeq(invoked', Len(invoked) + 1, Len(invoked')),
                       ToolContent(result'))
    /\ (mode = "stream" /\ pc = "tool_result" /\ outcome' # "abandoned") =>
           messages' = Append(messages, ToolMessage(toolCalls[ti], result))

\* C18: a call to a registered tool stops at its first failing step and
\* reports it: arguments that are not JSON run neither validator nor handler
\* and give an argument-decode error that differs in kind from a handler
\* failure; arguments the validator rejects give a validation error without
\* the handler running; a handler failure gives a handler error; otherwise
\* the tool message carries the handler's value, a string as it is and
\* anything else serialized.
C18_PipelineFirstFailure == [][C18_Step]_vars

\* C9: the tool message of a call whose name is not registered carries the
\* "Unknown tool" error and the call's id, and no validator and no handler
\* is ever invoked for such a call.
C9_UnknownToolSafe ==
    /\ \A a \in Groups : \A j \in 1..Len(messages[a].tool_calls) :
           LET toolCall == messages[a].tool_calls[j] IN
           (a + j <= Len(messages) /\ toolCall.name \notin Registry) =>
               messages[a + j] =
                   Message("tool", UnknownToolContent(toolCall.name), <<>>, toolCall.id)
    /\ \A k \in 1..Len(invoked) : invoked[k].call.name \in Registry

\* C9 witness: an unknown tool call has been answered in a call that also
\* ran a registered tool's handler.
C9_Witness ==
    /\ \E k \in DOMAIN messages :
           /\ messages[k].role = "tool"
           /\ messages[k].content = UnknownToolContent("lookup")
    /\ \E k \in 1..Len(invoked) : invoked[k].step = "handler"

\* C10: a simple-mode call ends only by returning, by its consumer
\* abandoning it, or with a request error, a transport error or the
\* max-iterations error.
C10_OnlyThreeEscape ==
    outcome \in {"none", "success", "abandoned", "request_error", "transport_error",
                 "max_iterations"}

====
